---- MODULE Spec2Model ----
(***************************************************************************)
(* Model of the Dozer persistence layer (dozer/db.py): the DatabaseTable   *)
(* upsert / query / delete engine, the ConfigCache read cache and the      *)
(* db_migrate startup runner; and of the global check and the error        *)
(* handler of the bot (dozer/bot.py).                                      *)
(*                                                                         *)
(* The relational store is modelled by what the statements built in the    *)
(* code do when executed: a statement whose text is malformed, or whose    *)
(* placeholder count differs from the number of bound arguments, raises    *)
(* and changes nothing.  A comparison "$1 = $2" compares the two bound     *)
(* arguments with each other; all values are strings, so the driver's      *)
(* check of an argument's type against the inferred parameter type never   *)
(* rejects a call here.                                                    *)
(***************************************************************************)
EXTENDS Integers, Sequences, FiniteSets, TLC

VARIABLES
    uniquesForm,    \* how the table class declares __uniques__: "list" or "str"
    rows,           \* the rows of the table, in storage order
    cache,          \* ConfigCache.cache: function from key tuples to values
    last,           \* the most recent call and its outcome
    prev,           \* the call before it
    registry,       \* per registered table class: len(__versions__), initial_create overridden
    tableExists,    \* per table: present in information_schema.tables
    versionRow,     \* per table: version_num of its row in versions, or None
    applied,        \* per table: the migration steps invoked so far, in order
    created,        \* per table: number of initial_create runs that created it
    migrated,       \* per table: number of initial_migrate calls
    runs,           \* number of db_migrate runs
    badStep,        \* the migration step that raises when invoked, if any
    flows,          \* per reader: its query_one call, suspended or finished
    tasks,          \* per task: the engine operation it is in and its connection
    held,           \* connections acquired from Pool and not released
    cooldown,       \* Dozer._global_cooldown: its tokens and window
    clock,          \* time.time(), in ticks
    accepted,       \* per user: when global_checks last let a command through
    event,          \* the last message handled and what came of it
    afk_map,        \* Info.afk_map: the reason of each user that is AFK
    handlers,       \* the on_message calls of the Info cog, idle or suspended at a send
    isAfk,          \* per user: issued an accepted afk command and no other message since
    stats,          \* per user: times AFK was ended by a message, "no longer AFK" sends
    msgs,           \* number of messages received
    infoErr         \* the exception the last on_message step raised

vars == <<uniquesForm, rows, cache, last, prev, registry, tableExists,
          versionRow, applied, created, migrated, runs, badStep,
          flows, tasks, held, cooldown, clock, accepted, event,
          afk_map, handlers, isAfk, stats, msgs, infoErr>>

dbVars == <<uniquesForm, rows>>
migVars == <<registry, tableExists, versionRow, applied, created, migrated, runs, badStep>>
asyncVars == <<flows, tasks, held>>
botVars == <<cooldown, clock, accepted, event>>
infoVars == <<afk_map, handlers, isAfk, stats, msgs, infoErr>>

-----------------------------------------------------------------------------
(* Values *)

\* Python None and SQL NULL
None == "None"

\* The afk_status table of the scenario: user_id is the unique key.
Columns == <<"user_id", "reason">>
UniqueCol == "user_id"

Range(s) == {s[i] : i \in 1..Len(s)}

\* Values a Python call can return or a cache entry can hold
PyNone == [kind |-> "none", rows |-> <<>>]
PyRow(r) == [kind |-> "row", rows |-> <<r>>]
PyList(s) == [kind |-> "list", rows |-> s]

\* The record of a call: its inputs, whether the store executed a statement
\* for it (reached), whether it was served from the cache (hit), its return
\* value and the exception it raised ("none" when it returned).
NoCall ==
    [op |-> "none", args |-> <<>>, kwargs |-> <<>>, rec |-> <<>>,
     conds |-> <<>>, hit |-> FALSE, reached |-> FALSE,
     result |-> PyNone, err |-> "none"]

\* What is remembered of the call before the last one
Brief(c) ==
    [op |-> c.op, args |-> c.args, kwargs |-> c.kwargs, rec |-> c.rec,
     reached |-> c.reached, err |-> c.err]

-----------------------------------------------------------------------------
(* DatabaseTable.update_or_add *)

\* keys: the attributes of self.__dict__ whose value is not None, in
\* __dict__ order.  obj is the __dict__ as a sequence of <<attr, value>>.
NonNull(obj) == SelectSeq(obj, LAMBDA kv : kv[2] # None)

UpsertKeys(obj) == [i \in 1..Len(NonNull(obj)) |-> NonNull(obj)[i][1]]

UpsertValues(obj) == [i \in 1..Len(NonNull(obj)) |-> NonNull(obj)[i][2]]

\* key in self.__uniques__  (for the column names used here list membership
\* and substring test agree)
InUniques(key) == key = UniqueCol

\* The terminator appended after the assignment of the key at position i
UpdateTerminator(keys, i) == IF i = Len(keys) THEN ";" ELSE ","

\* updates: one <<column, terminator>> per key that is not unique
RECURSIVE UpdatesFrom(_, _)
UpdatesFrom(keys, i) ==
    IF i > Len(keys) THEN <<>>
    ELSE IF InUniques(keys[i]) THEN UpdatesFrom(keys, i + 1)
    ELSE <<<<keys[i], UpdateTerminator(keys, i)>>>> \o UpdatesFrom(keys, i + 1)

Updates(keys) == UpdatesFrom(keys, 1)

\* ON CONFLICT ({self.__uniques__}): a list renders as its Python repr,
\* which is not a column list; a plain column name renders as itself.
ConflictTargetOk(form) == form = "str"

\* SET {updates}: a non-empty comma separated list of assignments
SetClauseOk(upd) ==
    /\ Len(upd) > 0
    /\ \A i \in 1..Len(upd) : upd[i][2] = (IF i = Len(upd) THEN ";" ELSE ",")

StatementOk(form, keys) ==
    /\ Len(keys) > 0
    /\ ConflictTargetOk(form)
    /\ SetClauseOk(Updates(keys))

\* The row INSERT would add: the given columns, NULL elsewhere
Excluded(obj) ==
    [c \in Range(Columns) |->
        IF \E i \in 1..Len(NonNull(obj)) : NonNull(obj)[i][1] = c
        THEN (CHOOSE kv \in Range(NonNull(obj)) : kv[1] = c)[2]
        ELSE None]

SetColumns(keys) == {Updates(keys)[i][1] : i \in 1..Len(Updates(keys))}

\* INSERT ... ON CONFLICT (unique) DO UPDATE SET c = EXCLUDED.c, ...
InsertOnConflict(tbl, obj) ==
    LET new == Excluded(obj)
        cols == SetColumns(UpsertKeys(obj))
    IN  IF \E i \in 1..Len(tbl) : tbl[i][UniqueCol] = new[UniqueCol]
        THEN [i \in 1..Len(tbl) |->
                IF tbl[i][UniqueCol] = new[UniqueCol]
                THEN [c \in Range(Columns) |-> IF c \in cols THEN new[c] ELSE tbl[i][c]]
                ELSE tbl[i]]
        ELSE Append(tbl, new)

UpsertError(form, obj) ==
    IF ~StatementOk(form, UpsertKeys(obj)) THEN "PostgresSyntaxError"
    ELSE IF Excluded(obj)[UniqueCol] = None THEN "NotNullViolationError"
    ELSE "none"

update_or_add(obj) ==
    /\ rows' = IF UpsertError(uniquesForm, obj) = "none"
               THEN InsertOnConflict(rows, obj) ELSE rows
    /\ last' = [NoCall EXCEPT !.op = "update_or_add", !.rec = obj,
                              !.reached = (UpsertError(uniquesForm, obj) = "none"),
                              !.err = UpsertError(uniquesForm, obj)]
    /\ prev' = Brief(last)
    /\ UNCHANGED <<uniquesForm, cache>>
    /\ UNCHANGED migVars
    /\ UNCHANGED asyncVars
    /\ UNCHANGED botVars
    /\ UNCHANGED infoVars

-----------------------------------------------------------------------------
(* DatabaseTable.get_by_attribute, get_all, delete *)

\* SELECT * FROM table WHERE $1 = $2, bound to (column_name, obj_id)
SelectByAttribute(tbl, obj_id, column_name) ==
    IF column_name = obj_id THEN tbl ELSE <<>>

get_by_attribute(obj_id, column_name) ==
    /\ last' = [NoCall EXCEPT !.op = "get_by_attribute",
                   !.kwargs = <<<<"obj_id", obj_id>>, <<"column_name", column_name>>>>,
                   !.reached = TRUE,
                   !.result = PyList(SelectByAttribute(rows, obj_id, column_name))]
    /\ prev' = Brief(last)
    /\ UNCHANGED <<uniquesForm, rows, cache>>
    /\ UNCHANGED migVars
    /\ UNCHANGED asyncVars
    /\ UNCHANGED botVars
    /\ UNCHANGED infoVars

get_all ==
    /\ last' = [NoCall EXCEPT !.op = "get_all", !.reached = TRUE,
                              !.result = PyList(rows)]
    /\ prev' = Brief(last)
    /\ UNCHANGED <<uniquesForm, rows, cache>>
    /\ UNCHANGED migVars
    /\ UNCHANGED asyncVars
    /\ UNCHANGED botVars
    /\ UNCHANGED infoVars

\* The convenience lookups.  get_by_id awaits get_by_attribute and drops
\* what it returns; the other four return it.
get_by_id(obj_id) ==
    /\ last' = [NoCall EXCEPT !.op = "get_by_id",
                   !.kwargs = <<<<"obj_id", obj_id>>, <<"column_name", "id">>>>,
                   !.reached = TRUE,
                   !.result = PyNone]
    /\ prev' = Brief(last)
    /\ UNCHANGED <<uniquesForm, rows, cache>>
    /\ UNCHANGED migVars
    /\ UNCHANGED asyncVars
    /\ UNCHANGED botVars
    /\ UNCHANGED infoVars

\* get_by_guild, get_by_channel, get_by_user, get_by_role: each returns
\* get_by_attribute(obj_id=value, column_name=its column argument)
LookupBy(name, value, column_name) ==
    /\ last' = [NoCall EXCEPT !.op = name,
                   !.kwargs = <<<<"obj_id", value>>, <<"column_name", column_name>>>>,
                   !.reached = TRUE,
                   !.result = PyList(SelectByAttribute(rows, value, column_name))]
    /\ prev' = Brief(last)
    /\ UNCHANGED <<uniquesForm, rows, cache>>
    /\ UNCHANGED migVars
    /\ UNCHANGED asyncVars
    /\ UNCHANGED botVars
    /\ UNCHANGED infoVars

get_by_guild(guild_id, guild_column_name) == LookupBy("get_by_guild", guild_id, guild_column_name)

get_by_channel(channel_id, channel_column_name) ==
    LookupBy("get_by_channel", channel_id, channel_column_name)

get_by_user(user_id, user_column_name) == LookupBy("get_by_user", user_id, user_column_name)

get_by_role(role_id, role_column_name) == LookupBy("get_by_role", role_id, role_column_name)

\* A statement with one pair of placeholders per tuple and none otherwise
DeletePlaceholdersPerTuple(n) == 2 * n

\* Number of placeholders of the DELETE statement: "$1 = $2" always, and
\* one more pair for each i in range(1, len(data_tuple_list))
DeletePlaceholders(n) == 2 + (IF n > 1 THEN 2 * (n - 1) ELSE 0)

\* params: the flattened list, two per tuple
DeleteParams(conds) == [i \in 1..(2 * Len(conds)) |-> conds[(i + 1) \div 2][2 - (i % 2)]]

DeleteError(conds) ==
    IF DeletePlaceholders(Len(conds)) # Len(DeleteParams(conds))
    THEN "UndefinedParameterError" ELSE "none"

\* WHERE $1 = $2 AND $3 = $4 ...: every pair of bound arguments is equal
DeleteWhere(conds) ==
    \A i \in 1..Len(conds) : DeleteParams(conds)[2 * i - 1] = DeleteParams(conds)[2 * i]

delete(conds) ==
    /\ rows' = IF DeleteError(conds) = "none" /\ DeleteWhere(conds) THEN <<>> ELSE rows
    /\ last' = [NoCall EXCEPT !.op = "delete", !.conds = conds,
                              !.reached = (DeleteError(conds) = "none"),
                              !.err = DeleteError(conds)]
    /\ prev' = Brief(last)
    /\ UNCHANGED <<uniquesForm, cache>>
    /\ UNCHANGED migVars
    /\ UNCHANGED asyncVars
    /\ UNCHANGED botVars
    /\ UNCHANGED infoVars

-----------------------------------------------------------------------------
(* ConfigCache *)

EmptyCache == [k \in {} |-> PyNone]

\* The parameter names that occur, in the order sorted() gives them
SortedNames == <<"column_name", "obj_id">>

\* The value bound to name n in kwargs, a sequence of <<name, value>>
KwValue(kwargs, n) == (CHOOSE kv \in Range(kwargs) : kv[1] = n)[2]

\* _hash_dict: tuple((k, dic[k]) for k in sorted(dic))
_hash_dict(kwargs) ==
    LET names == SelectSeq(SortedNames, LAMBDA n : \E kv \in Range(kwargs) : kv[1] = n)
    IN  [i \in 1..Len(names) |-> <<names[i], KwValue(kwargs, names[i])>>]

\* A key that also takes the keyword arguments, in the order written
QueryHashWithKwargs(args, kwargs) == args \o kwargs

\* query_hash = args, in query_one and in query_all
QueryHash(args, kwargs) == args

CachePut(c, key, val) == [k \in DOMAIN c \cup {key} |-> IF k = key THEN val ELSE c[k]]

\* A removal that drops every entry
CacheDelAll(c, key) == EmptyCache

CacheDel(c, key) == [k \in DOMAIN c \ {key} |-> c[k]]

\* An entry that keeps the empty list the store returned
QueryOneEntryUncollapsed(fetched) ==
    IF Len(fetched) = 0 THEN PyList(fetched) ELSE PyRow(fetched[1])

\* What query_one leaves in the cache for the rows the store returned
QueryOneEntry(fetched) == IF Len(fetched) = 0 THEN PyNone ELSE PyRow(fetched[1])

\* What query_one returns when the key is already cached: the return
\* statement belongs to the miss branch, so the call falls off the end.
QueryOneHitResult(c, key) == PyNone

\* kwargs holds obj_id and column_name in the order the caller wrote them
query_one(args, kwargs) ==
    LET query_hash == QueryHash(args, kwargs)
        obj_id == KwValue(kwargs, "obj_id")
        column_name == KwValue(kwargs, "column_name")
        entry == QueryOneEntry(SelectByAttribute(rows, obj_id, column_name))
    IN  /\ IF query_hash \notin DOMAIN cache
           THEN /\ cache' = CachePut(cache, query_hash, entry)
                /\ last' = [NoCall EXCEPT !.op = "query_one", !.args = args,
                                          !.kwargs = kwargs, !.reached = TRUE,
                                          !.result = entry]
           ELSE /\ cache' = cache
                /\ last' = [NoCall EXCEPT !.op = "query_one", !.args = args,
                                          !.kwargs = kwargs, !.hit = TRUE,
                                          !.result = QueryOneHitResult(cache, query_hash)]
        /\ prev' = Brief(last)
        /\ UNCHANGED dbVars
        /\ UNCHANGED migVars
        /\ UNCHANGED asyncVars
        /\ UNCHANGED botVars
        /\ UNCHANGED infoVars

query_all(args) ==
    LET query_hash == QueryHash(args, <<>>)
    IN  /\ IF query_hash \notin DOMAIN cache
           THEN /\ cache' = CachePut(cache, query_hash, PyList(rows))
                /\ last' = [NoCall EXCEPT !.op = "query_all", !.args = args,
                                          !.reached = TRUE, !.result = PyList(rows)]
           ELSE /\ cache' = cache
                /\ last' = [NoCall EXCEPT !.op = "query_all", !.args = args,
                                          !.hit = TRUE, !.result = cache[query_hash]]
        /\ prev' = Brief(last)
        /\ UNCHANGED dbVars
        /\ UNCHANGED migVars
        /\ UNCHANGED asyncVars
        /\ UNCHANGED botVars
        /\ UNCHANGED infoVars

invalidate_entry(kwargs) ==
    LET query_hash == _hash_dict(kwargs)
    IN  /\ cache' = IF query_hash \in DOMAIN cache
                    THEN CacheDel(cache, query_hash) ELSE cache
        /\ last' = [NoCall EXCEPT !.op = "invalidate_entry", !.kwargs = kwargs,
                                  !.hit = (query_hash \in DOMAIN cache)]
        /\ prev' = Brief(last)
        /\ UNCHANGED dbVars
        /\ UNCHANGED migVars
        /\ UNCHANGED asyncVars
        /\ UNCHANGED botVars
        /\ UNCHANGED infoVars

-----------------------------------------------------------------------------
(* db_migrate *)

\* Bounds of the migration model
MaxSteps == 6       \* largest len(cls.__versions__) of a table class
MaxStored == 3      \* largest version_num found in versions at startup
MaxRuns == 2        \* db_migrate runs in one behaviour

\* DatabaseTable.__subclasses__(), in definition order
Tables == <<"guild_config", "afk_status">>

\* "no row for this table in versions": fetchrow returns None
NoVersion == -1

\* The version set_initial_version writes
Baseline == 0

\* range(a, b)
PyRange(a, b) == [i \in 1..(IF b > a THEN b - a ELSE 0) |-> a + i - 1]

\* The steps the upgrade loop invokes for stored version v and n = len(cls.__versions__)
MigrateSteps(v, n) == PyRange(v + 1, n - 2)

\* No migration step raises
NoBadStep == [table |-> "none", step |-> 0]

\* Invoking step badStep.step of table badStep.table raises
StepRaises(t, steps) == badStep.table = t /\ badStep.step \in Range(steps)

\* A loop that goes on with the next step after one has raised
StepsDoneSkippingFailed(t, steps) == SelectSeq(steps, LAMBDA i : ~(badStep.table = t /\ badStep.step = i))

\* The steps of the loop that complete: all of them, or those before the
\* one that raises, since the exception leaves the loop
StepsDone(t, steps) ==
    IF StepRaises(t, steps)
    THEN SelectSeq(steps, LAMBDA i : i < badStep.step)
    ELSE steps

\* One iteration of the loop over the table classes.  s holds the store
\* state and err, the exception raised so far.
MigrateTable(t, s) ==
    IF s.tableExists[t]
    THEN IF s.versionRow[t] = NoVersion
         THEN [s EXCEPT !.migrated[t] = @ + 1]
         ELSE IF s.versionRow[t] < registry[t].nversions
         THEN [s EXCEPT !.applied[t] =
                            @ \o StepsDone(t, MigrateSteps(s.versionRow[t], registry[t].nversions)),
                        !.err =
                            IF StepRaises(t, MigrateSteps(s.versionRow[t], registry[t].nversions))
                            THEN "MigrationStepError" ELSE "none"]
         ELSE s
    ELSE IF registry[t].hasCreate
         THEN [s EXCEPT !.tableExists[t] = TRUE, !.created[t] = @ + 1]
         ELSE [s EXCEPT !.err = "NotImplementedError"]

\* The loop stops at the first exception
RECURSIVE MigrateFrom(_, _)
MigrateFrom(i, s) ==
    IF i > Len(Tables) \/ s.err # "none" THEN s
    ELSE MigrateFrom(i + 1, MigrateTable(Tables[i], s))

db_migrate ==
    LET s == MigrateFrom(1, [tableExists |-> tableExists, versionRow |-> versionRow,
                             applied |-> applied, created |-> created,
                             migrated |-> migrated, err |-> "none"])
    IN  /\ runs < MaxRuns
        /\ runs' = runs + 1
        /\ tableExists' = s.tableExists
        /\ versionRow' = s.versionRow
        /\ applied' = s.applied
        /\ created' = s.created
        /\ migrated' = s.migrated
        /\ last' = [NoCall EXCEPT !.op = "db_migrate", !.reached = TRUE, !.err = s.err]
        /\ prev' = Brief(last)
        /\ UNCHANGED <<registry, badStep>>
        /\ UNCHANGED <<uniquesForm, rows, cache>>
        /\ UNCHANGED asyncVars
        /\ UNCHANGED botVars
        /\ UNCHANGED infoVars

\* ConfigCache.set_initial_version: ConfigCache has no __tablename__, so
\* evaluating the arguments of the INSERT raises and nothing is written.
set_initial_version ==
    /\ last' = [NoCall EXCEPT !.op = "set_initial_version", !.err = "AttributeError"]
    /\ prev' = Brief(last)
    /\ UNCHANGED <<uniquesForm, rows, cache>>
    /\ UNCHANGED migVars
    /\ UNCHANGED asyncVars
    /\ UNCHANGED botVars
    /\ UNCHANGED infoVars

-----------------------------------------------------------------------------
(* Inputs *)

\* The engine on its own: two users
DbUsers == {"7", "8"}
DbReasons == {None, "lunch", "meeting"}

\* A record object: its __dict__ in the order the attributes were assigned
DbObjects ==
    UNION {{<<<<"user_id", u>>, <<"reason", r>>>>, <<<<"reason", r>>, <<"user_id", u>>>>} :
           u \in DbUsers, r \in DbReasons}

DbObjIds == {"7", "8", "user_id"}
DbColumnNames == {"user_id", "reason"}

DbConds == {<<>>, <<<<"user_id", "7">>>>, <<<<"user_id", "user_id">>>>,
            <<<<"user_id", "user_id">>, <<"reason", "lunch">>>>}

\* Values passed to the convenience lookups
LookupIds == {"7", "id", "guild_id", "channel_id", "user_id", "role_id"}

\* The cache in front of the engine: one user
CacheObjects == {<<<<"user_id", "7">>, <<"reason", r>>>> : r \in {"lunch", "meeting"}}

CacheObjIds == {"7", "user_id"}

\* obj_id and column_name as keyword arguments, in either order
CacheKwargs ==
    UNION {{<<<<"obj_id", o>>, <<"column_name", "user_id">>>>,
            <<<<"column_name", "user_id">>, <<"obj_id", o>>>>} : o \in CacheObjIds}

\* Positional arguments of a query
CacheArgs == {<<>>, <<<<"column_name", "user_id">>, <<"obj_id", "7">>>>}

InvalidateKwargs == CacheKwargs \cup {<<>>}

-----------------------------------------------------------------------------
(* Concurrent flows, the pool and the bot: initial state *)

\* Flows that call ConfigCache.query_one
Readers == {"r1", "r2"}

IdleFlow == [pc |-> "idle", kwargs |-> <<>>, fetched |-> <<>>, result |-> PyNone, late |-> FALSE]

\* Bounds of the pool model
NTasks == 2         \* tasks that run engine operations
PoolSize == 1       \* connections of the pool

IdleTask == [pc |-> "idle", op |-> "none", conn |-> FALSE, err |-> "none"]

\* commands.Cooldown(1, 1, commands.BucketType.user)
Rate == 1
Per == 1

\* Bounds of the bot model
TicksPerSecond == 2 \* resolution of the clock
MaxTime == 4        \* last tick of a behaviour

PerTicks == Per * TicksPerSecond

Users == {"A", "B"}

Never == -1

NoEvent ==
    [author |-> "none", bot |-> FALSE, found |-> FALSE, time |-> 0, limited |-> FALSE,
     bodyRan |-> FALSE, err |-> "none", replies |-> 0, handlerErr |-> "none"]

\* Cooldown.__init__: all tokens available, no window yet
NewCooldown == [tokens |-> Rate, window |-> Never - PerTicks]

\* Users of the Info cog, the reasons they give, and the bounds of its model
InfoUsers == {"A", "B"}
InfoReasons == {"lunch", "meeting"}

NHandlers == 2      \* on_message calls that can be in progress together
MaxMessages == 4    \* messages received in one behaviour

IdleHandler == [pc |-> "idle", author |-> "none", mentions |-> <<>>]

\* Info.__init__: self.afk_map = {}
InitInfo ==
    /\ afk_map = [u \in {} |-> "none"]
    /\ handlers = [h \in 1..NHandlers |-> IdleHandler]
    /\ isAfk = [u \in InfoUsers |-> FALSE]
    /\ stats = [u \in InfoUsers |-> [left |-> 0, announced |-> 0]]
    /\ msgs = 0
    /\ infoErr = "none"

InitAsync ==
    /\ flows = [r \in Readers |-> IdleFlow]
    /\ tasks = [t \in 1..NTasks |-> IdleTask]
    /\ held = 0

InitBot ==
    /\ cooldown = NewCooldown
    /\ clock = 0
    /\ accepted = [u \in Users |-> Never]
    /\ event = NoEvent

-----------------------------------------------------------------------------
(* Specifications *)

NoMigration ==
    /\ registry = [t \in Range(Tables) |-> [nversions |-> 0, hasCreate |-> TRUE]]
    /\ tableExists = [t \in Range(Tables) |-> TRUE]
    /\ versionRow = [t \in Range(Tables) |-> Baseline]
    /\ applied = [t \in Range(Tables) |-> <<>>]
    /\ created = [t \in Range(Tables) |-> 0]
    /\ migrated = [t \in Range(Tables) |-> 0]
    /\ runs = 0
    /\ badStep = NoBadStep

InitDb ==
    /\ uniquesForm \in {"list", "str"}
    /\ rows = <<>>
    /\ cache = EmptyCache
    /\ last = NoCall
    /\ prev = Brief(NoCall)
    /\ InitAsync
    /\ InitBot
    /\ InitInfo

\* ConfigCache in front of the table
Init == InitDb /\ NoMigration

Next ==
    \/ \E args \in CacheArgs, kwargs \in CacheKwargs : query_one(args, kwargs)
    \/ \E args \in CacheArgs : query_all(args)
    \/ \E kwargs \in InvalidateKwargs : invalidate_entry(kwargs)
    \/ \E obj \in CacheObjects : update_or_add(obj)

Spec == Init /\ [][Next]_vars

\* The engine on its own
NextDb ==
    \/ \E obj \in DbObjects : update_or_add(obj)
    \/ \E o \in DbObjIds, c \in DbColumnNames : get_by_attribute(o, c)
    \/ get_all
    \/ \E conds \in DbConds : delete(conds)
    \/ \E v \in LookupIds : get_by_id(v)
    \/ \E v \in LookupIds : get_by_guild(v, "guild_id")
    \/ \E v \in LookupIds : get_by_channel(v, "channel_id")
    \/ \E v \in LookupIds : get_by_user(v, "user_id")
    \/ \E v \in LookupIds : get_by_role(v, "role_id")

SpecDb == Init /\ [][NextDb]_vars

\* Startup: the store as db_migrate may find it.  A table at version v has
\* had steps 1..v applied.
InitMigrate ==
    /\ InitDb
    /\ uniquesForm = "str"
    /\ registry \in [Range(Tables) -> [nversions : 0..MaxSteps, hasCreate : BOOLEAN]]
    /\ tableExists \in [Range(Tables) -> BOOLEAN]
    /\ versionRow \in [Range(Tables) -> {NoVersion} \cup (0..MaxStored)]
    /\ \A t \in Range(Tables) : ~tableExists[t] => versionRow[t] = NoVersion
    /\ applied = [t \in Range(Tables) |->
                    IF versionRow[t] = NoVersion THEN <<>> ELSE PyRange(1, versionRow[t] + 1)]
    /\ created = [t \in Range(Tables) |-> 0]
    /\ migrated = [t \in Range(Tables) |-> 0]
    /\ runs = 0
    /\ badStep \in {NoBadStep} \cup [table : Range(Tables), step : 1..MaxSteps]

NextMigrate ==
    \/ db_migrate
    \/ set_initial_version

SpecMigrate == InitMigrate /\ [][NextMigrate]_vars

-----------------------------------------------------------------------------
(* Properties of the engine (SpecDb) *)

\* The row the store holds for unique key k
RowOf(tbl, k) == tbl[CHOOSE i \in 1..Len(tbl) : tbl[i][UniqueCol] = k]

HasKey(tbl, k) == \E i \in 1..Len(tbl) : tbl[i][UniqueCol] = k

\* C1: an update_or_add of a record whose unique key is already stored sets
\* every non-null field of the record on the stored row and leaves the
\* other fields of that row as they were.
C1_UpsertMergesNonNull ==
    [][(last'.op = "update_or_add" /\ HasKey(rows, Excluded(last'.rec)[UniqueCol]))
       => LET new == Excluded(last'.rec)
              k == new[UniqueCol]
          IN  /\ HasKey(rows', k)
              /\ \A c \in Range(Columns) :
                    RowOf(rows', k)[c] = IF new[c] # None THEN new[c] ELSE RowOf(rows, k)[c]
      ]_vars

\* C8: delete with an empty condition list raises, executes no statement
\* and leaves every row in place.
C8_EmptyDeleteRefused ==
    [][(last'.op = "delete" /\ last'.conds = <<>>)
       => (last'.err # "none" /\ ~last'.reached /\ rows' = rows)]_vars

\* An empty delete was attempted on a table that holds rows
C8_Witness ==
    /\ last.op = "delete"
    /\ last.conds = <<>>
    /\ last.err # "none"
    /\ Len(rows) > 0

\* C9: get_by_attribute on the unique column, for the key an update_or_add
\* has just stored, returns exactly one record, carrying the non-null
\* values of that upsert; no two stored rows share a unique key.
C9_OneRecordWithLatestValues ==
    (/\ last.op = "get_by_attribute"
     /\ prev.op = "update_or_add"
     /\ prev.err = "none"
     /\ KwValue(last.kwargs, "column_name") = UniqueCol
     /\ KwValue(last.kwargs, "obj_id") = Excluded(prev.rec)[UniqueCol])
    => /\ Len(last.result.rows) = 1
       /\ \A c \in Range(Columns) :
             Excluded(prev.rec)[c] # None => last.result.rows[1][c] = Excluded(prev.rec)[c]
       /\ \A i, j \in 1..Len(rows) : rows[i][UniqueCol] = rows[j][UniqueCol] => i = j

-----------------------------------------------------------------------------
(* Properties of ConfigCache (Spec) *)

\* C2: a query_one that passes only obj_id and column_name, or a query_all,
\* issued right after invalidate_entry with the same canonical parameters
\* is answered by the store, not by the cache.
C2_QueryAfterInvalidateReachesStore ==
    /\ (/\ last.op = "query_one"
        /\ last.args = <<>>
        /\ prev.op = "invalidate_entry"
        /\ _hash_dict(prev.kwargs) = _hash_dict(last.kwargs))
       => last.reached
    /\ (/\ last.op = "query_all"
        /\ prev.op = "invalidate_entry"
        /\ _hash_dict(prev.kwargs) = last.args)
       => last.reached

\* C3: a query_one that finds under its key an entry a query_one miss has
\* stored (a record or None) returns that entry and does not query the store.
C3_HitReturnsCachedValue ==
    [][(/\ last'.op = "query_one"
        /\ last'.hit
        /\ cache[QueryHash(last'.args, last'.kwargs)].kind \in {"row", "none"})
       => /\ last'.result = cache[QueryHash(last'.args, last'.kwargs)]
          /\ ~last'.reached
      ]_vars

\* C7: a query_one that follows a query_one with the same positional
\* arguments and the same obj_id and column_name, written in any order, is
\* a cache hit and does not query the store.
C7_KeywordOrderIndependent ==
    (/\ last.op = "query_one"
     /\ prev.op = "query_one"
     /\ prev.args = last.args
     /\ _hash_dict(prev.kwargs) = _hash_dict(last.kwargs))
    => (last.hit /\ ~last.reached)

\* The same parameters in the other order, after the call that filled the entry
C7_Witness ==
    /\ last.op = "query_one"
    /\ prev.op = "query_one"
    /\ prev.args = last.args
    /\ prev.reached
    /\ prev.kwargs # last.kwargs
    /\ _hash_dict(prev.kwargs) = _hash_dict(last.kwargs)
    /\ last.hit

\* C10: a query_one that misses the cache and finds no row returns None
\* without raising and leaves None cached under its key; a query_one whose
\* key holds None returns None without querying the store.
C10_NotFoundIsCached ==
    [][last'.op = "query_one"
       => LET k == QueryHash(last'.args, last'.kwargs)
              found == SelectByAttribute(rows, KwValue(last'.kwargs, "obj_id"),
                                         KwValue(last'.kwargs, "column_name"))
          IN  /\ (k \notin DOMAIN cache /\ found = <<>>)
                 => /\ last'.result = PyNone
                    /\ last'.err = "none"
                    /\ k \in DOMAIN cache'
                    /\ cache'[k] = PyNone
              /\ (k \in DOMAIN cache /\ cache[k] = PyNone)
                 => /\ last'.result = PyNone
                    /\ last'.err = "none"
                    /\ ~last'.reached
                    /\ cache' = cache
      ]_vars

\* The same query repeated after the store had no row for it
C10_Witness ==
    /\ last.op = "query_one"
    /\ last.hit
    /\ cache[QueryHash(last.args, last.kwargs)] = PyNone
    /\ prev.op = "query_one"
    /\ prev.reached
    /\ prev.args = last.args
    /\ prev.kwargs = last.kwargs

-----------------------------------------------------------------------------
(* Properties of db_migrate (SpecMigrate) *)

\* C4: a db_migrate run that completes applies, to every existing table with
\* stored version s below its latest version L = len(__versions__), exactly
\* the steps s+1 .. L in increasing order, and the table ends at version L.
C4_AppliesEveryPendingStep ==
    [][(last'.op = "db_migrate" /\ last'.err = "none")
       => \A t \in Range(Tables) :
            (/\ tableExists[t]
             /\ versionRow[t] # NoVersion
             /\ versionRow[t] < registry[t].nversions)
            => /\ applied'[t] = applied[t] \o PyRange(versionRow[t] + 1, registry[t].nversions + 1)
               /\ versionRow'[t] = registry[t].nversions
      ]_vars

\* C5: the stored version of a table never decreases and equals the number
\* of migration steps applied to it.
C5_VersionCountsAppliedSteps ==
    [][\A t \in Range(Tables) :
          /\ versionRow'[t] >= versionRow[t]
          /\ versionRow'[t] # NoVersion => versionRow'[t] = Len(applied'[t])
      ]_vars

\* C6: a db_migrate run that completes creates every table that did not
\* exist and leaves it a versions row holding the baseline; the run after
\* the one that created a table changes nothing for that table.
C6_FreshTableThenNoOp ==
    [][(last'.op = "db_migrate" /\ last'.err = "none")
       => \A t \in Range(Tables) :
            /\ ~tableExists[t]
               => /\ tableExists'[t]
                  /\ created'[t] = created[t] + 1
                  /\ versionRow'[t] = Baseline
            /\ (last.op = "db_migrate" /\ created[t] = 1)
               => /\ tableExists'[t] = tableExists[t]
                  /\ versionRow'[t] = versionRow[t]
                  /\ applied'[t] = applied[t]
                  /\ created'[t] = created[t]
                  /\ migrated'[t] = migrated[t]
      ]_vars

-----------------------------------------------------------------------------
(* Further properties of ConfigCache (Spec) *)

\* C11: invalidate_entry removes the entry stored under the canonical form
\* of its keyword arguments, if there is one, and leaves every other entry
\* as it was.
C11_InvalidateRemovesOneEntry ==
    [][last'.op = "invalidate_entry"
       => /\ DOMAIN cache' = DOMAIN cache \ {_hash_dict(last'.kwargs)}
          /\ \A k \in DOMAIN cache' : cache'[k] = cache[k]
      ]_vars

\* An entry was removed while another one stayed
C11_Witness ==
    /\ last.op = "invalidate_entry"
    /\ last.hit
    /\ _hash_dict(last.kwargs) \notin DOMAIN cache
    /\ DOMAIN cache # {}

\* C20: a query served from the entry that the call before it stored is
\* the same kind of query with the same parameters.
C20_EntriesNotShared ==
    (/\ prev.op \in {"query_one", "query_all"}
     /\ prev.reached
     /\ last.op \in {"query_one", "query_all"}
     /\ last.hit
     /\ QueryHash(prev.args, prev.kwargs) = QueryHash(last.args, last.kwargs))
    => /\ prev.op = last.op
       /\ _hash_dict(prev.kwargs) = _hash_dict(last.kwargs)

-----------------------------------------------------------------------------
(* Further properties of the engine (SpecDb) *)

\* The rows of tbl that satisfy every (column, value) condition
Matches(r, conds) == \A i \in 1..Len(conds) : r[conds[i][1]] = conds[i][2]

\* C13: delete with a non-empty condition list removes the rows that
\* satisfy every condition and keeps the others.
C13_DeleteRemovesMatchingRows ==
    [][(last'.op = "delete" /\ last'.conds # <<>>)
       => LET conds == last'.conds
          IN  rows' = SelectSeq(rows, LAMBDA r : ~Matches(r, conds))
      ]_vars

\* C16: each convenience lookup returns what get_by_attribute returns for
\* the same value and the column id, guild_id, channel_id, user_id, role_id.
C16_LookupsEqualGetByAttribute ==
    /\ last.op = "get_by_id"
       => last.result = PyList(SelectByAttribute(rows, KwValue(last.kwargs, "obj_id"), "id"))
    /\ last.op = "get_by_guild"
       => last.result = PyList(SelectByAttribute(rows, KwValue(last.kwargs, "obj_id"), "guild_id"))
    /\ last.op = "get_by_channel"
       => last.result = PyList(SelectByAttribute(rows, KwValue(last.kwargs, "obj_id"), "channel_id"))
    /\ last.op = "get_by_user"
       => last.result = PyList(SelectByAttribute(rows, KwValue(last.kwargs, "obj_id"), "user_id"))
    /\ last.op = "get_by_role"
       => last.result = PyList(SelectByAttribute(rows, KwValue(last.kwargs, "obj_id"), "role_id"))

-----------------------------------------------------------------------------
(* Further properties of db_migrate (SpecMigrate) *)

\* C15: a db_migrate run that finds an existing table whose stored version
\* exceeds len(__versions__) ends with an error.
C15_VersionAheadHalts ==
    [][(/\ last'.op = "db_migrate"
        /\ \E t \in Range(Tables) :
              /\ tableExists[t]
              /\ versionRow[t] # NoVersion
              /\ versionRow[t] > registry[t].nversions)
       => last'.err # "none"
      ]_vars


\* C14: when a migration step of a table raises, the run has applied to
\* that table exactly the pending steps before the failing one, none after
\* it, and the stored version is not beyond the last step that succeeded.
C14_FailedStepAbortsTable ==
    [][(last'.op = "db_migrate" /\ last'.err = "MigrationStepError")
       => LET t == badStep.table
          IN  /\ applied'[t] = applied[t] \o PyRange(versionRow[t] + 1, badStep.step)
              /\ versionRow'[t] < badStep.step
      ]_vars

\* A run in which some step succeeded before another raised
C14_Witness ==
    /\ last.op = "db_migrate"
    /\ last.err = "MigrationStepError"
    /\ badStep.step > versionRow[badStep.table] + 1
    /\ Len(applied[badStep.table]) > versionRow[badStep.table]


-----------------------------------------------------------------------------
(* query_one as concurrent flows (SpecAsync)                               *)
(* A flow runs until it awaits the store; the store answers at some later  *)
(* step and the flow resumes at a later step still.  Other flows and the   *)
(* writer run in between.                                                  *)

\* The writer has upserted a row and then invalidated the entry of kwargs
WrittenAndInvalidated(kwargs) ==
    /\ prev.op = "update_or_add"
    /\ prev.err = "none"
    /\ last.op = "invalidate_entry"
    /\ _hash_dict(last.kwargs) = _hash_dict(kwargs)

\* query_one up to its await: the membership test, and on a hit the end of
\* the call
QueryOneBegin(r, kwargs) ==
    LET query_hash == QueryHash(<<>>, kwargs)
    IN  /\ flows[r].pc = "idle"
        /\ flows' = [flows EXCEPT ![r] =
                [pc |-> IF query_hash \in DOMAIN cache THEN "done" ELSE "awaiting",
                 kwargs |-> kwargs,
                 fetched |-> <<>>,
                 result |-> IF query_hash \in DOMAIN cache
                            THEN QueryOneHitResult(cache, query_hash) ELSE PyNone,
                 late |-> WrittenAndInvalidated(kwargs)]]
        /\ UNCHANGED <<uniquesForm, rows, cache, last, prev, tasks, held>>
        /\ UNCHANGED migVars
        /\ UNCHANGED botVars
        /\ UNCHANGED infoVars

\* The store executes the SELECT of get_by_attribute
QueryOneFetch(r) ==
    /\ flows[r].pc = "awaiting"
    /\ flows' = [flows EXCEPT ![r].pc = "fetched",
                              ![r].fetched =
                                  SelectByAttribute(rows, KwValue(flows[r].kwargs, "obj_id"),
                                                    KwValue(flows[r].kwargs, "column_name"))]
    /\ UNCHANGED <<uniquesForm, rows, cache, last, prev, tasks, held>>
    /\ UNCHANGED migVars
    /\ UNCHANGED botVars
    /\ UNCHANGED infoVars

\* The flow resumes: the assignment to self.cache[query_hash] and the return
QueryOneResume(r) ==
    LET query_hash == QueryHash(<<>>, flows[r].kwargs)
        entry == QueryOneEntry(flows[r].fetched)
    IN  /\ flows[r].pc = "fetched"
        /\ cache' = CachePut(cache, query_hash, entry)
        /\ flows' = [flows EXCEPT ![r].pc = "done", ![r].result = entry]
        /\ UNCHANGED <<uniquesForm, rows, last, prev, tasks, held>>
        /\ UNCHANGED migVars
        /\ UNCHANGED botVars
        /\ UNCHANGED infoVars

\* Readers interleaved with one writer that upserts once and then invalidates
NextAsync ==
    \/ \E r \in Readers, kwargs \in CacheKwargs : QueryOneBegin(r, kwargs)
    \/ \E r \in Readers : QueryOneFetch(r)
    \/ \E r \in Readers : QueryOneResume(r)
    \/ last.op = "none" /\ \E obj \in CacheObjects : update_or_add(obj)
    \/ last.op = "update_or_add" /\ last.err = "none"
         /\ \E kwargs \in InvalidateKwargs : invalidate_entry(kwargs)

SpecAsync == Init /\ [][NextAsync]_vars

\* C12: a query_one that starts after the writer has upserted a row and
\* invalidated the key of that query does not return what the query gave
\* before the write (the table was empty: None) when the store now holds a
\* row for it.
C12_NoStaleReadAfterInvalidate ==
    \A r \in Readers :
        (/\ flows[r].pc = "done"
         /\ flows[r].late
         /\ QueryOneEntry(SelectByAttribute(rows, KwValue(flows[r].kwargs, "obj_id"),
                                            KwValue(flows[r].kwargs, "column_name"))) # PyNone)
        => flows[r].result # PyNone


-----------------------------------------------------------------------------
(* The connection pool (SpecPool)                                          *)
(* Every engine operation runs its statement inside                        *)
(* "async with Pool.acquire() as conn": acquire, the body, then the exit   *)
(* of the block, as three steps of a task.                                 *)

\* The operations that acquire a connection this way
PoolOps == {"update_or_add", "get_by_attribute", "get_all", "delete", "db_migrate"}

\* Pool.acquire(): waits until a connection is free
Acquire(t, op) ==
    /\ tasks[t].pc = "idle"
    /\ held < PoolSize
    /\ held' = held + 1
    /\ tasks' = [tasks EXCEPT ![t] = [pc |-> "acquired", op |-> op, conn |-> TRUE, err |-> "none"]]
    /\ UNCHANGED <<uniquesForm, rows, cache, last, prev, flows>>
    /\ UNCHANGED migVars
    /\ UNCHANGED botVars
    /\ UNCHANGED infoVars

\* The exception the body of the block ends with: the store cannot be
\* reached, or the statement of the operation is refused
BodyError(op, obj, conds, unreachable) ==
    IF unreachable THEN "ConnectionDoesNotExistError"
    ELSE IF op = "update_or_add" THEN UpsertError(uniquesForm, obj)
    ELSE IF op = "delete" THEN DeleteError(conds)
    ELSE "none"

\* conn.execute / conn.fetch inside the block
ExecuteBody(t, obj, conds, unreachable) ==
    LET op == tasks[t].op
        err == BodyError(op, obj, conds, unreachable)
    IN  /\ tasks[t].pc = "acquired"
        /\ rows' = IF err # "none" THEN rows
                   ELSE IF op = "update_or_add" THEN InsertOnConflict(rows, obj)
                   ELSE IF op = "delete" /\ DeleteWhere(conds) THEN <<>>
                   ELSE rows
        /\ tasks' = [tasks EXCEPT ![t].pc = "exiting", ![t].err = err]
        /\ UNCHANGED <<uniquesForm, cache, last, prev, flows, held>>
        /\ UNCHANGED migVars
        /\ UNCHANGED botVars
        /\ UNCHANGED infoVars

\* An exit that gives the connection back only when the body returned
ReleasedOnReturn(err) == err = "none"

\* Leaving "async with": the connection goes back to the pool whether the
\* body returned or raised
ReleasedOnExit(err) == TRUE

ExitBlock(t) ==
    /\ tasks[t].pc = "exiting"
    /\ tasks' = [tasks EXCEPT ![t].pc = "idle",
                              ![t].conn = ~ReleasedOnExit(tasks[t].err)]
    /\ held' = IF ReleasedOnExit(tasks[t].err) THEN held - 1 ELSE held
    /\ UNCHANGED <<uniquesForm, rows, cache, last, prev, flows>>
    /\ UNCHANGED migVars
    /\ UNCHANGED botVars
    /\ UNCHANGED infoVars

NextPool ==
    \/ \E t \in 1..NTasks, op \in PoolOps : Acquire(t, op)
    \/ \E t \in 1..NTasks, obj \in CacheObjects, conds \in DbConds, unreachable \in BOOLEAN :
          ExecuteBody(t, obj, conds, unreachable)
    \/ \E t \in 1..NTasks : ExitBlock(t)

SpecPool == Init /\ [][NextPool]_vars

\* C17: a task that has finished its operation holds no connection, and
\* the connections out of the pool are exactly those of the tasks inside
\* their block.
C17_ConnectionsReturned ==
    /\ \A t \in 1..NTasks : tasks[t].pc = "idle" => ~tasks[t].conn
    /\ held = Cardinality({t \in 1..NTasks : tasks[t].pc \in {"acquired", "exiting"}})

\* An operation whose statement failed has finished and the pool is whole
C17_Witness ==
    /\ \E t \in 1..NTasks : tasks[t].pc = "idle" /\ tasks[t].err # "none" /\ ~tasks[t].conn
    /\ held = 0


-----------------------------------------------------------------------------
(* The bot: global_checks and on_command_error (SpecBot)                   *)

\* The exception classes, each with the class it derives from
Bases ==
    [CommandError |-> "Exception",
     CheckFailure |-> "CommandError",
     UserInputError |-> "CommandError",
     BadArgument |-> "UserInputError",
     CommandNotFound |-> "CommandError",
     CommandOnCooldown |-> "CommandError",
     CommandInvokeError |-> "CommandError",
     NoPrivateMessage |-> "CheckFailure",
     NotOwner |-> "CheckFailure",
     MissingPermissions |-> "CheckFailure",
     BotMissingPermissions |-> "CheckFailure",
     InvalidContext |-> "CheckFailure"]

ErrorClasses == DOMAIN Bases

\* isinstance(err, cls), err given by its class
RECURSIVE IsInstance(_, _)
IsInstance(err, cls) ==
    \/ err = cls
    \/ err \in DOMAIN Bases /\ IsInstance(Bases[err], cls)

\* A handler that answers every error
RepliesToAll(err) == 1

\* on_command_error: the number of ctx.send calls for err
Replies(err) ==
    IF IsInstance(err, "NoPrivateMessage") THEN 1
    ELSE IF IsInstance(err, "UserInputError") THEN 1
    ELSE IF IsInstance(err, "NotOwner") THEN 1
    ELSE IF IsInstance(err, "MissingPermissions") THEN 1
    ELSE IF IsInstance(err, "BotMissingPermissions") THEN 1
    ELSE IF IsInstance(err, "CommandOnCooldown") THEN 1
    ELSE IF IsInstance(err, "CommandNotFound") \/ IsInstance(err, "InvalidContext") THEN 0
    ELSE 1

\* The last branch of on_command_error sends and then builds its log line
\* with one argument for several conversions, which raises
HandlerError(err) ==
    IF \E c \in {"NoPrivateMessage", "UserInputError", "NotOwner", "MissingPermissions",
                 "BotMissingPermissions", "CommandOnCooldown", "CommandNotFound",
                 "InvalidContext"} : IsInstance(err, c)
    THEN "none" ELSE "TypeError"

\* Cooldown.get_tokens: a window that is over gives all tokens back
GetTokens(cd, current) == IF current > cd.window + PerTicks THEN Rate ELSE cd.tokens

\* Cooldown.update_rate_limit: the time to wait (0: none) and the new state
RetryAfter(cd, current) ==
    IF GetTokens(cd, current) = 0
    THEN PerTicks - (current - (IF GetTokens(cd, current) = Rate THEN current ELSE cd.window))
    ELSE 0

UpdateRateLimit(cd, current) ==
    LET tokens == GetTokens(cd, current)
        window == IF tokens = Rate THEN current ELSE cd.window
    IN  IF tokens = 0 THEN [tokens |-> 0, window |-> window]
        ELSE [tokens |-> tokens - 1, window |-> IF tokens - 1 = 0 THEN current ELSE window]

\* global_checks: the exception it raises for a command of author
GlobalCheckBot(isBot) == isBot

\* A message that invokes a command.  found: the command exists; raised:
\* what the invocation raises once the global check has passed.
OnCommand(author, isBot, found, raised) ==
    LET limited == found /\ ~GlobalCheckBot(isBot) /\ RetryAfter(cooldown, clock) # 0
        passed == found /\ ~GlobalCheckBot(isBot) /\ ~limited
        err == IF ~found THEN "CommandNotFound"
               ELSE IF ~passed THEN "InvalidContext"
               ELSE raised
    IN  /\ cooldown' = IF found /\ ~GlobalCheckBot(isBot)
                       THEN UpdateRateLimit(cooldown, clock) ELSE cooldown
        /\ accepted' = IF passed THEN [accepted EXCEPT ![author] = clock] ELSE accepted
        /\ event' = [author |-> author, bot |-> isBot, found |-> found, time |-> clock,
                     limited |-> limited, bodyRan |-> passed, err |-> err,
                     replies |-> IF err = "none" THEN 0 ELSE Replies(err),
                     handlerErr |-> IF err = "none" THEN "none" ELSE HandlerError(err)]
        /\ UNCHANGED clock
        /\ UNCHANGED <<uniquesForm, rows, cache, last, prev>>
        /\ UNCHANGED migVars
        /\ UNCHANGED asyncVars
        /\ UNCHANGED infoVars

\* Time passes
Tick ==
    /\ clock < MaxTime
    /\ clock' = clock + 1
    /\ UNCHANGED <<cooldown, accepted, event>>
    /\ UNCHANGED <<uniquesForm, rows, cache, last, prev>>
    /\ UNCHANGED migVars
    /\ UNCHANGED asyncVars
    /\ UNCHANGED infoVars

\* What a command can raise after the global check
Raised == {"none"} \cup (ErrorClasses \ {"InvalidContext", "CommandNotFound"})

NextBot ==
    \/ \E author \in Users, isBot \in BOOLEAN, found \in BOOLEAN, raised \in Raised :
          OnCommand(author, isBot, found, raised)
    \/ Tick

SpecBot == Init /\ [][NextBot]_vars

\* C18: a command is rejected as rate limited only when its own author had
\* a command accepted within the last second.
C18_CooldownIsPerUser ==
    event.limited
    => /\ accepted[event.author] # Never
       /\ event.time - accepted[event.author] <= PerTicks

\* C19: a command of a bot, or one over the rate limit, fails with
\* InvalidContext, its body does not run and nothing is sent; nothing is
\* sent for CommandNotFound either; every other error is answered once.
C19_InvalidContextIgnored ==
    /\ (event.found /\ (event.bot \/ event.limited))
       => (event.err = "InvalidContext" /\ ~event.bodyRan /\ event.replies = 0)
    /\ event.err \in {"InvalidContext", "CommandNotFound"} => event.replies = 0
    /\ event.err \notin {"none", "InvalidContext", "CommandNotFound"} => event.replies = 1

\* A command over the rate limit was dropped without a reply
C19_Witness ==
    /\ event.limited
    /\ event.err = "InvalidContext"
    /\ ~event.bodyRan
    /\ event.replies = 0


-----------------------------------------------------------------------------
(* The Info cog: the afk command and the on_message listener.                 *)
(* Every message is handed to on_message, each call a task of its own that    *)
(* gives up control at every await ctx.send(...); a message that invokes the  *)
(* afk command also runs the command's body.  AFKStatus(user_id, reason) is   *)
(* taken to build an object holding these two attributes, so afk_map is       *)
(* modelled as a map from user id to the reason.                              *)

MentionLists == {<<>>, <<"A">>, <<"B">>, <<"A", "B">>}

InAfkMap(map, u) == u \in DOMAIN map

\* self.afk_map[ctx.author.id] = afk_status / afk_status.reason = reason
AfkPut(map, u, reason) ==
    [x \in DOMAIN map \cup {u} |-> IF x = u THEN reason ELSE map[x]]

\* del self.afk_map[ctx.author.id]
AfkDel(map, u) == [x \in DOMAIN map \ {u} |-> map[x]]

\* on_message from the loop over message.mentions up to its next await:
\* a notice for the first mentioned member that is AFK, else the
\* announcement when the author is AFK, else the end of the handler.
RECURSIVE Advance(_, _, _)
Advance(map, author, mentions) ==
    IF mentions # <<>>
    THEN IF InAfkMap(map, Head(mentions))
         THEN [pc |-> "notify", author |-> author, mentions |-> Tail(mentions)]
         ELSE Advance(map, author, Tail(mentions))
    ELSE IF InAfkMap(map, author)
         THEN [pc |-> "announce", author |-> author, mentions |-> <<>>]
         ELSE IdleHandler

Announces(h) == IF h.pc = "announce" THEN 1 ELSE 0

\* the body of the afk command for a message "<prefix>afk <reason>"; the
\* on_message call for the same message returns at its prefix test
afk(author, reason, mentions) ==
    /\ msgs < MaxMessages
    /\ msgs' = msgs + 1
    /\ IF Len(mentions) > 0
       THEN UNCHANGED <<afk_map, isAfk>>
       ELSE /\ afk_map' = AfkPut(afk_map, author, reason)
            /\ isAfk' = [isAfk EXCEPT ![author] = TRUE]
    /\ UNCHANGED <<handlers, stats, infoErr>>
    /\ UNCHANGED <<uniquesForm, rows, cache, last, prev>>
    /\ UNCHANGED migVars
    /\ UNCHANGED asyncVars
    /\ UNCHANGED botVars

\* on_message up to its first await, for a message that is not an afk command
\* (afkPrefixed: its text starts with the prefix followed by "afk")
on_message(h, author, afkPrefixed, mentions) ==
    /\ msgs < MaxMessages
    /\ handlers[h].pc = "idle"
    /\ msgs' = msgs + 1
    /\ infoErr' = "none"
    /\ IF afkPrefixed
       THEN UNCHANGED <<handlers, isAfk, stats>>
       ELSE LET next == Advance(afk_map, author, mentions)
            IN  /\ handlers' = [handlers EXCEPT ![h] = next]
                /\ isAfk' = [isAfk EXCEPT ![author] = FALSE]
                /\ stats' = [stats EXCEPT
                       ![author].left = @ + (IF isAfk[author] THEN 1 ELSE 0),
                       ![author].announced = @ + Announces(next)]
    /\ UNCHANGED afk_map
    /\ UNCHANGED <<uniquesForm, rows, cache, last, prev>>
    /\ UNCHANGED migVars
    /\ UNCHANGED asyncVars
    /\ UNCHANGED botVars

\* on_message resumed after a send: the rest of the loop over the mentions, or
\* the del that follows the announcement
OnMessageResume(h) ==
    LET t == handlers[h]
    IN  /\ t.pc # "idle"
        /\ IF t.pc = "notify"
           THEN LET next == Advance(afk_map, t.author, t.mentions)
                IN  /\ handlers' = [handlers EXCEPT ![h] = next]
                    /\ stats' = [stats EXCEPT
                           ![t.author].announced = @ + Announces(next)]
                    /\ infoErr' = "none"
                    /\ UNCHANGED afk_map
           ELSE /\ handlers' = [handlers EXCEPT ![h] = IdleHandler]
                /\ IF InAfkMap(afk_map, t.author)
                   THEN /\ afk_map' = AfkDel(afk_map, t.author)
                        /\ infoErr' = "none"
                   ELSE /\ infoErr' = "KeyError"
                        /\ UNCHANGED afk_map
                /\ UNCHANGED stats
        /\ UNCHANGED <<isAfk, msgs>>
        /\ UNCHANGED <<uniquesForm, rows, cache, last, prev>>
        /\ UNCHANGED migVars
        /\ UNCHANGED asyncVars
        /\ UNCHANGED botVars

NextInfo ==
    \/ \E u \in InfoUsers, r \in InfoReasons, m \in MentionLists : afk(u, r, m)
    \/ \E h \in 1..NHandlers, u \in InfoUsers, p \in BOOLEAN, m \in MentionLists :
           on_message(h, u, p, m)
    \/ \E h \in 1..NHandlers : OnMessageResume(h)

SpecInfo == Init /\ [][NextInfo]_vars

InfoQuiet == \A h \in 1..NHandlers : handlers[h].pc = "idle"

\* C21: once every message has been handled, a user is in afk_map exactly when
\* they have issued an afk command that mentions nobody and have since sent no
\* message other than ones starting with the prefix and "afk"; an afk command
\* that mentions someone leaves afk_map unchanged; and every time a message
\* ends a user's AFK status, that is announced once.
C21_AfkMapTracksStatus ==
    [][ /\ InfoQuiet' =>
             \A u \in InfoUsers :
                 /\ InAfkMap(afk_map', u) <=> isAfk'[u]
                 /\ stats'[u].announced = stats'[u].left
        /\ \A u \in InfoUsers, r \in InfoReasons, m \in MentionLists :
               (afk(u, r, m) /\ Len(m) > 0) => afk_map' = afk_map
      ]_vars

====
